---- MODULE Spec2Model ----
(***************************************************************************)
(* Evacuation planning of the SafeEscape backend:                          *)
(*   - evacuationController.getOptimizedRoute (advisory call with          *)
(*     map-based fallback),                                                *)
(*   - mapService.findNearbySafeLocations / findSafeZones /                *)
(*     filterLocationsByDisasterType / calculateEvacuationRoute /          *)
(*     selectOptimalRoute,                                                 *)
(*   - EvacuationRouteService.calculateEvacuationRoute of the routes file. *)
(* Coordinates live on a 60-degree grid, where the haversine formula is    *)
(* exact in sixteenths; scores are kept as integers scaled by ScoreScale.  *)
(***************************************************************************)
EXTENDS Integers, Sequences, FiniteSets, TLC

VARIABLES
    op,               \* the public operation this request runs
    pc,               \* position of the request's handler
    userLocation,     \* req.body.userLocation / the userLocation argument
    disasterType,     \* the disasterType argument
    advisory,         \* state of the evacuationOptimizer.optimizeEvacuationRoute promise
    searches,         \* searchPromises of findNearbySafeLocations, by place type
    placeCalls,       \* nearbysearch requests sent to the Geo Provider
    safeLocations,    \* the list findNearbySafeLocations returned to its caller
    closestSafeZones, \* calculateEvacuationRoute: safeZones.slice(0, 3)
    routePromises,    \* calculateEvacuationRoute: one getDirections promise per zone
    directionCalls,   \* directions requests sent to the Geo Provider
    routing,          \* Geo Provider: what a directions request to each place yields
    res,              \* the HTTP response of getOptimizedRoute
    ret,              \* the outcome of calculateEvacuationRoute
    scoreIn,          \* selectOptimalRoute called on its own: its arguments
    scoreOut,         \* selectOptimalRoute called on its own: its outcome
    filterIn,         \* filterLocationsByDisasterType called on its own: its arguments
    filterOut,        \* filterLocationsByDisasterType called on its own: its result
    geoUp,            \* Geo Provider: whether its places search can be reached at all
    radius,           \* the radius argument of findNearbySafeLocations
    arrived,          \* indexes of routePromises in the order in which they settled
    distanceIn,       \* calculateDistance called on its own: its arguments
    distanceOut       \* calculateDistance called on its own: its result (km), -1 before

vars == <<op, pc, userLocation, disasterType, advisory, searches, placeCalls,
          safeLocations,
          closestSafeZones, routePromises, directionCalls, routing, res, ret,
          scoreIn, scoreOut, filterIn, filterOut, geoUp, radius, arrived,
          distanceIn, distanceOut>>

----------------------------------------------------------------------------
(* Bounds of the model *)

MaxPlaces == 2        \* distinct places the Geo Provider knows
MaxPerSearch == 2     \* places one nearbysearch answer lists at most
MaxCandidates == 2    \* routes handed to selectOptimalRoute when called on its own
MaxLocations == 2     \* locations handed to filterLocationsByDisasterType on its own

----------------------------------------------------------------------------
(* Helpers *)

Min(a, b) == IF a < b THEN a ELSE b
Max(a, b) == IF a > b THEN a ELSE b

Range(s) == {s[i] : i \in 1..Len(s)}

RECURSIVE InsertIdx(_, _, _)
InsertIdx(i, sorted, key) ==
    IF sorted = <<>> THEN <<i>>
    ELSE IF key[Head(sorted)] <= key[i]
         THEN <<Head(sorted)>> \o InsertIdx(i, Tail(sorted), key)
         ELSE <<i>> \o sorted

RECURSIVE SortIdx(_, _)
SortIdx(n, key) == IF n = 0 THEN <<>> ELSE InsertIdx(n, SortIdx(n - 1, key), key)

\* Array.prototype.sort with a comparator that orders by ascending key; stable.
StableSort(seq, key) ==
    LET idx == SortIdx(Len(seq), key)
    IN  [k \in 1..Len(seq) |-> seq[idx[k]]]

RECURSIVE Flat(_)
Flat(ss) == IF ss = <<>> THEN <<>> ELSE Head(ss) \o Flat(Tail(ss))

Slice(s, from, to) == SubSeq(s, from + 1, Min(to, Len(s)))

\* String.prototype.toLowerCase on the disaster types that occur
ToLowerCase(s) ==
    CASE s = "Flood" -> "flood"
      [] s = "FLOOD" -> "flood"
      [] s = "Fire"  -> "fire"
      [] s = "FIRE"  -> "fire"
      [] OTHER -> s

----------------------------------------------------------------------------
(* calculateDistance on the 60-degree grid *)

\* 2 * cos(d degrees), d a multiple of 60
CosTwice(d) ==
    LET m == d % 360
    IN  CASE m = 0 -> 2
          [] m = 60 -> 1
          [] m = 120 -> -1
          [] m = 180 -> -2
          [] m = 240 -> -1
          [] m = 300 -> 1

\* 4 * sin^2(d/2 degrees) = 2 - 2 cos d
SinHalfSq4(d) == 2 - CosTwice(d)

\* R * 2 * atan2(sqrt(a), sqrt(1 - a)) in km for a = a16/16, R = 6371
ArcKm(a16) ==
    <<0, 3220, 4605, 5706, 6672, 7559, 8398, 9209, 10008, 10806, 11617,
      12457, 13343, 14309, 15411, 16795, 20015>>[a16 + 1]

calculateDistance(lat1, lon1, lat2, lon2) ==
    LET dLat == lat2 - lat1
        dLon == lat2 - lon1
        a16  == 4 * SinHalfSq4(dLat)
                + CosTwice(lat1) * CosTwice(lat2) * SinHalfSq4(dLon)
    IN  ArcKm(a16)

----------------------------------------------------------------------------
(* The Geo Provider's places and routes *)

PlaceIds == 1..MaxPlaces

PlaceLocation(p) ==
    CASE p = 1 -> [lat |-> 0, lng |-> 60]
      [] p = 2 -> [lat |-> 60, lng |-> 120]
      [] p = 3 -> [lat |-> -60, lng |-> 0]
      [] OTHER -> [lat |-> 60, lng |-> -60]

\* response.data.routes of a directions request that succeeds: one route
\* whose first leg carries duration (s) and distance (m); tunnel tells whether
\* an instruction of its steps mentions a tunnel or an underpass
RouteTo(p) == [valid |-> TRUE, duration |-> 600 * p, distance |-> 2000 * p, to |-> p,
               tunnel |-> FALSE]
NoLegs == [valid |-> FALSE, duration |-> 0, distance |-> 0, to |-> 0,
           tunnel |-> FALSE]

\* strictly increasing sequences of place ids, at most MaxPerSearch long
RECURSIVE IncSeqs(_, _)
IncSeqs(n, from) ==
    IF n = 0 THEN {<<>>}
    ELSE {<<>>} \cup UNION {{<<p>> \o t : t \in IncSeqs(n - 1, p + 1)} :
                              p \in from..MaxPlaces}

SearchResults == IncSeqs(MaxPerSearch, 1)

\* place types for which the Geo Provider knows places or may fail
ActiveTypes == {"hospital", "school"}

----------------------------------------------------------------------------
(* Requests *)

NoLocation == [present |-> FALSE, lat |-> 0, lng |-> 0]
Loc(lat, lng) == [present |-> TRUE, lat |-> lat, lng |-> lng]

UserLocations == {Loc(60, 60), Loc(0, 60), Loc(60, 0)}

\* a latitude beyond the poles
OutOfRangeLocations == {Loc(120, 60)}

DisasterTypes == {"flood", "fire", "earthquake", "tornado", "hurricane",
                  "tsunami", "general"}

\* a disasterType outside the enumeration
UnknownDisasterTypes == {"volcano"}

\* disaster types as a caller may spell them
CasedDisasterTypes == {"flood", "Flood", "FIRE"}

\* radius arguments below, inside and above the range the provider supports
RequestedRadii == {500, 1000, 5000, 50000, 60000}

----------------------------------------------------------------------------
(* mapService *)

mapServiceMethods ==
    {"getDirections", "getDistanceMatrix", "geocodeAddress",
     "findNearbySafeLocations", "findEvacuationRoutes", "calculateSafetyScore",
     "getEvacuationNotes", "findSafeZones", "getSafeZoneTypes",
     "getSearchRadius", "filterLocationsByDisasterType",
     "getLocationSafetyScore", "calculateEvacuationRoute",
     "selectOptimalRoute", "getSafetyTips", "getEvacuationInstructions"}

safeTypes ==
    <<"hospital", "police", "fire_station", "school", "stadium",
      "community_center", "government_office", "university">>

getSafeZoneTypes(dt) ==
    LET t == ToLowerCase(dt)
    IN  CASE t = "flood" -> <<"school", "stadium", "government_office", "university">>
          [] t = "fire" -> <<"hospital", "police", "fire_station", "school">>
          [] t = "earthquake" -> <<"park", "stadium", "school", "open_area">>
          [] t \in {"tornado", "hurricane"} -> <<"community_center", "school", "stadium">>
          [] t = "tsunami" -> <<"school", "stadium", "government_office">>
          [] OTHER -> <<"hospital", "police", "fire_station", "school">>

getSearchRadius(dt) ==
    LET t == ToLowerCase(dt)
    IN  CASE t = "flood" -> 15000
          [] t = "fire" -> 8000
          [] t \in {"tornado", "hurricane"} -> 20000
          [] OTHER -> 10000

\* the radius sent as it was requested
RadiusAsRequested(requested) == requested

\* Math.min(50000, Math.max(1000, radius))
ClampRadius(requested) == Min(50000, Max(1000, requested))

\* one entry of the list a fulfilled search maps its results to
LocationEntry(p, placeType, user) ==
    [placeId  |-> p,
     location |-> PlaceLocation(p),
     type     |-> placeType,
     distance |-> calculateDistance(user.lat, user.lng,
                                    PlaceLocation(p).lat, PlaceLocation(p).lng)]

SearchEntries(results, placeType, user) ==
    [i \in 1..Len(results) |-> LocationEntry(results[i], placeType, user)]

Pending == [st |-> "pending", results |-> <<>>]
Failed == [st |-> "failed", results |-> <<>>]
Fulfilled(entries) == [st |-> "ok", results |-> entries]
NotStarted == [st |-> "idle", results |-> <<>>]

\* the results put together without the sort
MergeUnsorted(srch) ==
    Flat([i \in 1..Len(safeTypes) |-> srch[safeTypes[i]].results])

\* resultsArrays.flat().sort((a, b) => a.distance - b.distance)
MergeByDistance(srch) ==
    LET flat == Flat([i \in 1..Len(safeTypes) |-> srch[safeTypes[i]].results])
    IN  StableSort(flat, [i \in 1..Len(flat) |-> flat[i].distance])

getLocationSafetyScore(location, dt) ==
    LET t == ToLowerCase(dt)
    IN  3 + (CASE t = "flood" ->
                    (IF location.type = "school" THEN 2 ELSE 0)
                    + (IF location.type = "stadium" THEN 2 ELSE 0)
               [] t = "fire" ->
                    (IF location.type = "fire_station" THEN 3 ELSE 0)
                    + (IF location.type = "hospital" THEN 2 ELSE 0)
               [] t = "earthquake" ->
                    (IF location.type = "park" THEN 3 ELSE 0)
                    + (IF location.type = "stadium" THEN 2 ELSE 0)
               [] OTHER -> 0)

\* the filter with its fire rule lost
KeepLocationFloodOnly(location, dt) ==
    ~(dt = "flood" /\ location.type \in {"subway_station", "basement"})

\* the predicate of locations.filter(...) in filterLocationsByDisasterType
KeepLocation(location, dt) ==
    /\ ~(dt = "flood" /\ location.type \in {"subway_station", "basement"})
    /\ ~(dt = "fire" /\ location.type \in {"gas_station", "chemical_plant"})

RECURSIVE FilterSeq(_, _)
FilterSeq(s, dt) ==
    IF s = <<>> THEN <<>>
    ELSE IF KeepLocation(Head(s), dt)
         THEN <<Head(s)>> \o FilterSeq(Tail(s), dt)
         ELSE FilterSeq(Tail(s), dt)

DistanceSpan == 100000   \* exceeds every distance ArcKm yields

\* the filter without the sort that follows it
FilterUnsorted(locations, dt) == FilterSeq(locations, dt)

filterLocationsByDisasterType(locations, dt) ==
    LET kept == FilterSeq(locations, dt)
    IN  StableSort(kept,
            [i \in 1..Len(kept) |->
                kept[i].distance - DistanceSpan * getLocationSafetyScore(kept[i], dt)])

----------------------------------------------------------------------------
(* selectOptimalRoute; scores are multiplied by ScoreScale, which makes    *)
(* duration / 60 and distance / 1000 integers                              *)

ScoreScale == 3000

\* route[0] of one getDirections result: undefined when the array is empty
FirstRoute(routesOfZone) ==
    IF Len(routesOfZone) > 0 THEN routesOfZone[1] ELSE NoLegs

\* the score without its switch on the disaster type
NoDestinationBonus(destination, dt) == 0

DestinationBonus(destination, dt) ==
    LET t == ToLowerCase(dt)
    IN  CASE t = "flood" ->
                (IF destination.type = "stadium" THEN 15 ELSE 0)
                + (IF destination.type = "school" THEN 10 ELSE 0)
          [] t = "fire" ->
                (IF destination.type = "fire_station" THEN 20 ELSE 0)
                + (IF destination.type = "hospital" THEN 15 ELSE 0)
          [] t = "earthquake" ->
                (IF destination.type = "park" THEN 15 ELSE 0)
                + (IF destination.type = "stadium" THEN 10 ELSE 0)
          [] OTHER -> 0

\* the penalties without their caps of 40 and 30 points
RouteScoreUncapped(route, destination, dt) ==
    IF ~route.valid THEN 0
    ELSE 100 * ScoreScale
         - route.duration * (ScoreScale \div 60)
         - route.distance * (ScoreScale \div 1000)
         + DestinationBonus(destination, dt) * ScoreScale

RouteScore(route, destination, dt) ==
    IF ~route.valid THEN 0
    ELSE 100 * ScoreScale
         - Min(40 * ScoreScale, route.duration * (ScoreScale \div 60))
         - Min(30 * ScoreScale, route.distance * (ScoreScale \div 1000))
         + DestinationBonus(destination, dt) * ScoreScale

RECURSIVE PositiveScores(_)
PositiveScores(items) ==
    IF items = <<>> THEN <<>>
    ELSE IF Head(items).score > 0
         THEN <<Head(items)>> \o PositiveScores(Tail(items))
         ELSE PositiveScores(Tail(items))

\* the comparator with its operands swapped: a.score - b.score
SortByScoreAscending(items) == StableSort(items, [i \in 1..Len(items) |-> items[i].score])

\* scoredRoutes.sort((a, b) => b.score - a.score)
SortByScore(items) == StableSort(items, [i \in 1..Len(items) |-> 0 - items[i].score])

NoItem == [route |-> NoLegs, destination |-> <<>>, score |-> 0]

\* every route announced with the first safe zone
ZoneAtFirst(safeZones, index) == safeZones[1]

\* destination: safeZones[index]
ZoneAt(safeZones, index) == safeZones[index]

selectOptimalRoute(routes, safeZones, dt) ==
    LET scored == [i \in 1..Len(routes) |->
                     [route       |-> FirstRoute(routes[i]),
                      destination |-> <<ZoneAt(safeZones, i)>>,
                      score       |-> RouteScore(FirstRoute(routes[i]),
                                                 ZoneAt(safeZones, i), dt)]]
        scoredRoutes == SortByScore(PositiveScores(scored))
    IN  IF Len(scoredRoutes) = 0
        THEN [threw |-> TRUE, message |-> "No viable evacuation routes found",
              scoredRoutes |-> scoredRoutes, best |-> NoItem]
        ELSE [threw |-> FALSE, message |-> "",
              scoredRoutes |-> scoredRoutes, best |-> scoredRoutes[1]]

----------------------------------------------------------------------------
(* Outcomes *)

NoResponse == [status |-> 0, success |-> FALSE, source |-> "", error |-> "",
               message |-> "", destination |-> <<>>, allOptions |-> <<>>,
               data |-> <<>>]

\* res.status(400).json({ success: false, error: 'Valid user location required' })
BadRequest == [NoResponse EXCEPT !.status = 400,
                                 !.error = "Valid user location required"]

\* the response of the outer catch of getOptimizedRoute
ServerError(msg) == [NoResponse EXCEPT !.status = 500,
                                       !.error = "Failed to optimize evacuation route",
                                       !.message = msg]

\* res.status(200).json({ success: true, data: optimizedRoute, source: routeSource })
Success(routeSource, destination, allOptions) ==
    [NoResponse EXCEPT !.status = 200, !.success = TRUE, !.source = routeSource,
                       !.destination = destination, !.allOptions = allOptions]

NoReturn == [kind |-> "pending", message |-> "", route |-> NoLegs,
             destination |-> <<>>, alternativeRoutes |-> <<>>]
Throw(msg) == [NoReturn EXCEPT !.kind = "throw", !.message = msg]
Return(route, destination, alternativeRoutes) ==
    [NoReturn EXCEPT !.kind = "return", !.route = route,
                     !.destination = destination,
                     !.alternativeRoutes = alternativeRoutes]

NoScoreIn == [routes |-> <<>>, safeZones |-> <<>>, disasterType |-> ""]
NoScoreOut == [threw |-> FALSE, message |-> "", scoredRoutes |-> <<>>, best |-> NoItem]
NoDistanceIn == [lat1 |-> 0, lon1 |-> 0, lat2 |-> 0, lon2 |-> 0]
NoFilterIn == [locations |-> <<>>, disasterType |-> ""]

----------------------------------------------------------------------------
(* Inputs of the operations called on their own *)

DestinationTypes == {"fire_station", "stadium", "police"}
Durations == {0, 90, 3000, 7200}
Distances == {500, 45000}

Destination(i, t) == [placeId |-> i, location |-> PlaceLocation(i), type |-> t,
                      distance |-> 0]

\* what getDirections resolved to for one zone: no route, or one route
DirectionResults ==
    {<<>>} \cup {<<[valid |-> TRUE, duration |-> d, distance |-> m, to |-> 0,
                     tunnel |-> u]>> :
                    d \in Durations, m \in Distances, u \in BOOLEAN}

\* the arguments of one call: n zones, the routes to each, a disaster type
ScoreInput(n, r, t, dt) ==
    [routes |-> r, safeZones |-> [i \in 1..n |-> Destination(i, t[i])],
     disasterType |-> dt]

\* coordinates of the 60-degree grid
Latitudes == {-60, 0, 60}
Longitudes == {-120, -60, 0, 60, 120, 180}

LocationTypes == {"school", "basement", "gas_station", "subway_station",
                  "chemical_plant"}
LocationDistances == {3220, 4605}

\* lists as findNearbySafeLocations returns them: ascending distance
Ascending(n, d) == \A i \in 1..n, j \in 1..n : i <= j => d[i] <= d[j]

FilterInput(n, t, d, dt) ==
    [locations |-> [i \in 1..n |->
                      [placeId |-> i, location |-> PlaceLocation(i),
                       type |-> t[i], distance |-> d[i]]],
     disasterType |-> dt]

----------------------------------------------------------------------------
(* Initial states *)

Idle ==
    /\ pc = "start"
    /\ advisory = "idle"
    /\ searches = [t \in Range(safeTypes) |-> NotStarted]
    /\ placeCalls = {}
    /\ safeLocations = <<>>
    /\ closestSafeZones = <<>>
    /\ routePromises = <<>>
    /\ directionCalls = {}
    /\ res = NoResponse
    /\ ret = NoReturn
    /\ scoreOut = NoScoreOut
    /\ filterOut = <<>>
    /\ arrived = <<>>
    /\ distanceOut = -1

InitPlan ==
    /\ Idle
    /\ \/ /\ op = "getOptimizedRoute"
          /\ userLocation \in UserLocations \cup OutOfRangeLocations \cup {NoLocation}
          /\ disasterType \in DisasterTypes \cup UnknownDisasterTypes
          /\ radius = 0
       \/ /\ op \in {"calculateEvacuationRoute",
                     "EvacuationRouteService.calculateEvacuationRoute"}
          /\ userLocation \in UserLocations
          /\ disasterType \in DisasterTypes
          /\ radius = 0
       \/ /\ op = "findNearbySafeLocations"
          /\ userLocation \in UserLocations
          /\ disasterType = ""
          /\ radius \in RequestedRadii
       \/ /\ op \in {"getBasicEvacuationRoute", "getSafeLocations"}
          /\ userLocation \in UserLocations \cup {NoLocation}
          /\ disasterType = ""
          /\ radius = 0
    /\ routing \in [PlaceIds -> {"ok", "fail"}]
    /\ op # "calculateEvacuationRoute" => \A p \in PlaceIds : routing[p] = "ok"
    /\ geoUp \in BOOLEAN
    /\ scoreIn = NoScoreIn
    /\ filterIn = NoFilterIn
    /\ distanceIn = NoDistanceIn

\* calculateEvacuationRoute called with a disaster type in any letter case
InitCase ==
    /\ Idle
    /\ op = "calculateEvacuationRoute"
    /\ userLocation = Loc(60, 60)
    /\ disasterType \in CasedDisasterTypes
    /\ radius = 0
    /\ routing \in [PlaceIds -> {"ok", "fail"}]
    /\ geoUp \in BOOLEAN
    /\ scoreIn = NoScoreIn
    /\ filterIn = NoFilterIn
    /\ distanceIn = NoDistanceIn

InitScore ==
    /\ Idle
    /\ op = "selectOptimalRoute"
    /\ userLocation = NoLocation
    /\ disasterType = ""
    /\ routing = [p \in PlaceIds |-> "ok"]
    /\ geoUp = TRUE
    /\ radius = 0
    /\ \E n \in 1..MaxCandidates :
          \E r \in [1..n -> DirectionResults], t \in [1..n -> DestinationTypes],
             dt \in DisasterTypes :
                scoreIn = ScoreInput(n, r, t, dt)
    /\ filterIn = NoFilterIn
    /\ distanceIn = NoDistanceIn

\* the destination types selectOptimalRoute tells apart, and one it does not
BonusTypes == {"stadium", "school", "fire_station", "hospital", "park", "police"}

\* selectOptimalRoute called with one zone of any of these types
InitRouteScore ==
    /\ Idle
    /\ op = "selectOptimalRoute"
    /\ userLocation = NoLocation
    /\ disasterType = ""
    /\ routing = [p \in PlaceIds |-> "ok"]
    /\ geoUp = TRUE
    /\ radius = 0
    /\ \E r \in [1..1 -> DirectionResults], t \in [1..1 -> BonusTypes],
          dt \in DisasterTypes :
             scoreIn = ScoreInput(1, r, t, dt)
    /\ filterIn = NoFilterIn
    /\ distanceIn = NoDistanceIn

InitDistance ==
    /\ Idle
    /\ op = "calculateDistance"
    /\ userLocation = NoLocation
    /\ disasterType = ""
    /\ routing = [p \in PlaceIds |-> "ok"]
    /\ geoUp = TRUE
    /\ radius = 0
    /\ scoreIn = NoScoreIn
    /\ filterIn = NoFilterIn
    /\ \E lat1 \in Latitudes, lon1 \in Longitudes, lat2 \in Latitudes,
          lon2 \in Longitudes :
             distanceIn = [lat1 |-> lat1, lon1 |-> lon1, lat2 |-> lat2, lon2 |-> lon2]

InitFilter ==
    /\ Idle
    /\ op = "filterLocationsByDisasterType"
    /\ userLocation = NoLocation
    /\ disasterType = ""
    /\ routing = [p \in PlaceIds |-> "ok"]
    /\ geoUp = TRUE
    /\ radius = 0
    /\ scoreIn = NoScoreIn
    /\ distanceIn = NoDistanceIn
    /\ \E n \in 0..MaxLocations :
          \E t \in [1..n -> LocationTypes], d \in [1..n -> LocationDistances],
             dt \in DisasterTypes :
                Ascending(n, d) /\ filterIn = FilterInput(n, t, d, dt)

----------------------------------------------------------------------------
(* findNearbySafeLocations(userLocation, radius): the searches are issued  *)

StartSearches(requested) ==
    /\ radius' = requested
    /\ searches' = [t \in Range(safeTypes) |-> Pending]
    /\ placeCalls' = {[type |-> t, radius |-> ClampRadius(requested),
                       lat |-> userLocation.lat, lng |-> userLocation.lng] :
                         t \in Range(safeTypes)}
    /\ pc' = "awaitSearches"

----------------------------------------------------------------------------
(* getOptimizedRoute *)

\* !userLocation || !userLocation.lat || !userLocation.lng
InvalidLocation(l) == ~l.present \/ l.lat = 0 \/ l.lng = 0

\* the handler sending its places requests along with the call of the optimizer
OptStartPrefetch ==
    /\ pc = "start" /\ op = "getOptimizedRoute"
    /\ IF InvalidLocation(userLocation)
       THEN /\ res' = BadRequest
            /\ pc' = "done"
            /\ UNCHANGED <<advisory, placeCalls>>
       ELSE /\ advisory' \in {"pending", "hung"}
            /\ placeCalls' = {[type |-> t, radius |-> ClampRadius(10000),
                               lat |-> userLocation.lat, lng |-> userLocation.lng] :
                                 t \in Range(safeTypes)}
            /\ pc' = "awaitAdvisory"
            /\ UNCHANGED res
    /\ UNCHANGED <<op, userLocation, disasterType, distanceIn, distanceOut,
                   geoUp, radius, arrived,
                   safeLocations, searches, closestSafeZones, routePromises,
                   directionCalls, routing, ret, scoreIn, scoreOut, filterIn,
                   filterOut>>

\* input validation, then the call of the optimizer; the call may never settle
OptStart ==
    /\ pc = "start" /\ op = "getOptimizedRoute"
    /\ IF InvalidLocation(userLocation)
       THEN /\ res' = BadRequest
            /\ pc' = "done"
            /\ UNCHANGED advisory
       ELSE /\ advisory' \in {"pending", "hung"}
            /\ pc' = "awaitAdvisory"
            /\ UNCHANGED res
    /\ UNCHANGED <<op, userLocation, disasterType, distanceIn, distanceOut,
                   geoUp, radius, arrived,
                   safeLocations, searches, placeCalls,
                   closestSafeZones, routePromises, directionCalls, routing,
                   ret, scoreIn, scoreOut, filterIn, filterOut>>

AdvisoryResolves ==
    /\ pc = "awaitAdvisory" /\ advisory = "pending"
    /\ advisory' = "resolved"
    /\ res' = Success("ai", <<>>, <<>>)
    /\ pc' = "done"
    /\ UNCHANGED <<op, userLocation, disasterType, distanceIn, distanceOut,
                   geoUp, radius, arrived,
                   safeLocations, searches, placeCalls,
                   closestSafeZones, routePromises, directionCalls, routing,
                   ret, scoreIn, scoreOut, filterIn, filterOut>>

\* the advisory call outside the inner try: its error reaches the outer catch
AdvisoryRejectsSurfaced ==
    /\ pc = "awaitAdvisory" /\ advisory = "pending"
    /\ advisory' = "rejected"
    /\ res' = ServerError("aiError")
    /\ pc' = "done"
    /\ UNCHANGED <<op, userLocation, disasterType, distanceIn, distanceOut,
                   geoUp, radius, arrived,
                   safeLocations, searches,
                   placeCalls, closestSafeZones, routePromises, directionCalls,
                   routing, ret, scoreIn, scoreOut, filterIn, filterOut>>

\* catch (aiError): routeSource = 'map', findNearbySafeLocations(userLocation, 10000)
AdvisoryRejects ==
    /\ pc = "awaitAdvisory" /\ advisory = "pending"
    /\ advisory' = "rejected"
    /\ StartSearches(10000)
    /\ UNCHANGED <<op, userLocation, disasterType, distanceIn, distanceOut,
                   geoUp, arrived,
                   safeLocations, closestSafeZones,
                   routePromises, directionCalls, routing, res, ret,
                   scoreIn, scoreOut, filterIn, filterOut>>

\* the fallback without its check for an empty list answering a plan
OptFallbackEmptyOk(found) ==
    IF Len(found) = 0
    THEN Success("map", <<>>, <<>>)
    ELSE ServerError("mapService.getRoutes is not a function")

\* the fallback after findNearbySafeLocations returned the list found; the
\* call mapService.getRoutes(...) throws a TypeError unless mapService has
\* such a method
OptFallback(found) ==
    IF Len(found) = 0
    THEN ServerError("No safe locations found")
    ELSE IF "getRoutes" \notin mapServiceMethods
         THEN ServerError("mapService.getRoutes is not a function")
         ELSE IF routing[found[1].placeId] = "ok"
              THEN Success("map", <<found[1]>>, Slice(found, 0, 3))
              ELSE ServerError("Directions API error")

----------------------------------------------------------------------------
(* calculateEvacuationRoute *)

\* getDirections' default mode whatever the disaster
TravelModeDriving(dt) == "driving"

TravelMode(dt) == IF dt = "flood" THEN "walking" ELSE "driving"

\* findSafeZones: getSafeZoneTypes, getSearchRadius, findNearbySafeLocations
CalcStart ==
    /\ pc = "start" /\ op = "calculateEvacuationRoute"
    /\ StartSearches(getSearchRadius(disasterType))
    /\ UNCHANGED <<op, userLocation, disasterType, distanceIn, distanceOut,
                   geoUp, arrived,
                   safeLocations, advisory, closestSafeZones,
                   routePromises, directionCalls, routing, res, ret,
                   scoreIn, scoreOut, filterIn, filterOut>>

\* the catch returning an empty result instead of rethrowing
CalcCatchSwallow(msg) == Return(NoLegs, <<>>, <<>>)

\* catch (error) { console.error(...); throw error; } of calculateEvacuationRoute
CalcCatch(msg) == Throw(msg)

\* findSafeZones returns the filtered list; calculateEvacuationRoute throws
\* on an empty one and else requests directions to the first three zones
CalcRoutes(allLocations) ==
    LET safeZones == filterLocationsByDisasterType(allLocations, disasterType)
        closest == Slice(safeZones, 0, 3)
    IN  IF Len(safeZones) = 0
        THEN /\ ret' = CalcCatch("No safe zones found")
             /\ pc' = "done"
             /\ UNCHANGED <<closestSafeZones, routePromises, directionCalls>>
        ELSE /\ closestSafeZones' = closest
             /\ routePromises' = [i \in 1..Len(closest) |-> Pending]
             /\ directionCalls' = {[lat |-> closest[i].location.lat,
                                    lng |-> closest[i].location.lng,
                                    mode |-> TravelMode(disasterType)] :
                                      i \in 1..Len(closest)}
             /\ pc' = "awaitRoutes"
             /\ UNCHANGED ret

\* routes.filter(r => r !== optimalRoute.route): r is the array of routes to
\* one zone, optimalRoute.route an element of such an array, never the same object
SameObject(routesOfZone, route) == FALSE

RECURSIVE OtherRoutes(_, _)
OtherRoutes(routes, route) ==
    IF routes = <<>> THEN <<>>
    ELSE IF SameObject(Head(routes), route)
         THEN OtherRoutes(Tail(routes), route)
         ELSE <<Head(routes)>> \o OtherRoutes(Tail(routes), route)

\* Promise.all(routePromises) fulfilled with routes
CalcSelect(routes) ==
    LET optimalRoute == selectOptimalRoute(routes, closestSafeZones, disasterType)
    IN  IF optimalRoute.threw
        THEN CalcCatch(optimalRoute.message)
        ELSE Return(optimalRoute.best.route, optimalRoute.best.destination,
                    OtherRoutes(routes, optimalRoute.best.route))

----------------------------------------------------------------------------
(* findNearbySafeLocations(userLocation, radius) called on its own *)

NearbyStart ==
    /\ pc = "start" /\ op = "findNearbySafeLocations"
    /\ StartSearches(radius)
    /\ UNCHANGED <<op, userLocation, disasterType, distanceIn, distanceOut,
                   geoUp, arrived,
                   safeLocations, advisory, closestSafeZones, routePromises,
                   directionCalls, routing, res, ret, scoreIn, scoreOut,
                   filterIn, filterOut>>

----------------------------------------------------------------------------
(* getBasicEvacuationRoute and getSafeLocations; lat and lng are the strings *)
(* of req.query, of which only the missing and the empty one are falsy       *)

\* !lat || !lng
MissingCoordinates(l) == ~l.present

\* res.status(400).json({ success: false, error: 'Valid location coordinates required' })
BadQuery == [NoResponse EXCEPT !.status = 400,
                               !.error = "Valid location coordinates required"]

\* getBasicEvacuationRoute after findNearbySafeLocations returned the list
\* found: 404 on an empty list; else the call mapService.getRoutes(...)
\* throws a TypeError unless mapService has such a method
BasicRoute(found) ==
    IF Len(found) = 0
    THEN [NoResponse EXCEPT !.status = 404, !.error = "No safe locations found"]
    ELSE IF "getRoutes" \notin mapServiceMethods
         THEN [NoResponse EXCEPT !.status = 500,
                                 !.error = "Failed to find evacuation route"]
         ELSE IF routing[found[1].placeId] = "ok"
              THEN [NoResponse EXCEPT !.status = 200, !.success = TRUE,
                                      !.destination = <<found[1]>>,
                                      !.allOptions = Slice(found, 1, 4)]
              ELSE [NoResponse EXCEPT !.status = 500,
                                      !.error = "Failed to find evacuation route"]

\* findNearbySafeLocations(userLocation, 10000, evacuationType), no type given
BasicStart ==
    /\ pc = "start" /\ op = "getBasicEvacuationRoute"
    /\ IF MissingCoordinates(userLocation)
       THEN /\ res' = BadQuery
            /\ pc' = "done"
            /\ UNCHANGED <<radius, searches, placeCalls>>
       ELSE /\ StartSearches(10000)
            /\ UNCHANGED res
    /\ UNCHANGED <<op, userLocation, disasterType, distanceIn, distanceOut,
                   geoUp, arrived, safeLocations, advisory, closestSafeZones,
                   routePromises, directionCalls, routing, ret, scoreIn,
                   scoreOut, filterIn, filterOut>>

\* findNearbySafeLocations(userLocation, parseInt(radius), type) with the
\* default radius 10000 and no type
SafeLocationsStart ==
    /\ pc = "start" /\ op = "getSafeLocations"
    /\ IF MissingCoordinates(userLocation)
       THEN /\ res' = BadQuery
            /\ pc' = "done"
            /\ UNCHANGED <<radius, searches, placeCalls>>
       ELSE /\ StartSearches(10000)
            /\ UNCHANGED res
    /\ UNCHANGED <<op, userLocation, disasterType, distanceIn, distanceOut,
                   geoUp, arrived, safeLocations, advisory, closestSafeZones,
                   routePromises, directionCalls, routing, ret, scoreIn,
                   scoreOut, filterIn, filterOut>>

----------------------------------------------------------------------------
(* EvacuationRouteService of the routes file *)

EvacuationRouteServiceMethods ==
    {"calculateEvacuationRoute", "findSafeZones", "getSearchRadius",
     "selectOptimalRoute"}

\* EvacuationRouteService.getSearchRadius: radiusMap[disasterType] || 5000
ServiceSearchRadius(dt) ==
    CASE dt = "flood" -> 5000
      [] dt = "fire" -> 10000
      [] dt = "earthquake" -> 15000
      [] OTHER -> 5000

\* calculateEvacuationRoute awaits this.findSafeZones, which computes the
\* radius and then calls this.getSafeZoneType, a method the class lacks: the
\* TypeError is caught and rethrown before any request is sent
ServiceCalc ==
    /\ pc = "start" /\ op = "EvacuationRouteService.calculateEvacuationRoute"
    /\ IF "getSafeZoneType" \notin EvacuationRouteServiceMethods
       THEN /\ ret' = Throw("Failed to calculate evacuation route: this.getSafeZoneType is not a function")
            /\ pc' = "done"
            /\ UNCHANGED placeCalls
       ELSE /\ placeCalls' = {[type |-> "getSafeZoneType",
                               radius |-> ServiceSearchRadius(disasterType),
                               lat |-> userLocation.lat, lng |-> userLocation.lng]}
            /\ pc' = "awaitPlaces"
            /\ UNCHANGED ret
    /\ UNCHANGED <<op, userLocation, disasterType, distanceIn, distanceOut,
                   geoUp, radius, arrived,
                   safeLocations, advisory, searches, closestSafeZones,
                   routePromises, directionCalls, routing, res, scoreIn,
                   scoreOut, filterIn, filterOut>>

----------------------------------------------------------------------------
(* The searches of findNearbySafeLocations settle, in any order *)

AllFulfilled(promises, keys) == \A k \in keys : promises[k].st = "ok"

\* findNearbySafeLocations has returned allLocations to its caller
AfterSearches(allLocations) ==
    /\ safeLocations' = allLocations
    /\ CASE op = "getOptimizedRoute" ->
               /\ res' = OptFallback(allLocations)
               /\ pc' = "done"
               /\ UNCHANGED <<ret, closestSafeZones, routePromises, directionCalls>>
         [] op = "calculateEvacuationRoute" ->
               /\ CalcRoutes(allLocations)
               /\ UNCHANGED res
         [] op = "getBasicEvacuationRoute" ->
               /\ res' = BasicRoute(allLocations)
               /\ pc' = "done"
               /\ UNCHANGED <<ret, closestSafeZones, routePromises, directionCalls>>
         [] op = "getSafeLocations" ->
               /\ res' = [NoResponse EXCEPT !.status = 200, !.success = TRUE,
                                            !.data = allLocations]
               /\ pc' = "done"
               /\ UNCHANGED <<ret, closestSafeZones, routePromises, directionCalls>>
         [] OTHER ->
               /\ pc' = "done"
               /\ UNCHANGED <<res, ret, closestSafeZones, routePromises,
                              directionCalls>>

\* the place types whose search may be rejected: those with places while the
\* provider is reachable, and every one when it is not
FailingTypes == IF geoUp THEN ActiveTypes ELSE Range(safeTypes)

\* what the Geo Provider may answer to a search for place type t
AnswersFor(t) == IF t \in ActiveTypes THEN SearchResults ELSE {<<>>}

\* one search is fulfilled; when it is the last one, Promise.all is
\* fulfilled and the merged list is returned
SearchFulfils(t, results) ==
    /\ pc = "awaitSearches" /\ searches[t].st = "pending"
    /\ geoUp
    /\ LET srch == [searches EXCEPT
                      ![t] = Fulfilled(SearchEntries(results, t, userLocation))]
       IN  /\ searches' = srch
           /\ IF AllFulfilled(srch, Range(safeTypes))
              THEN AfterSearches(MergeByDistance(srch))
              ELSE UNCHANGED <<pc, res, ret, safeLocations, closestSafeZones,
                               routePromises, directionCalls>>
    /\ UNCHANGED <<op, userLocation, disasterType, distanceIn, distanceOut,
                   geoUp, radius, arrived,
                   advisory, placeCalls,
                   routing, scoreIn, scoreOut, filterIn, filterOut>>

\* one search is rejected and findNearbySafeLocations lets the error through
\* to its caller instead of returning []
SearchRejectsThrown(t) ==
    /\ pc = "awaitSearches" /\ searches[t].st = "pending"
    /\ searches' = [searches EXCEPT ![t] = Failed]
    /\ pc' = "done"
    /\ IF op = "getOptimizedRoute"
       THEN res' = ServerError("Places API error") /\ UNCHANGED ret
       ELSE ret' = Throw("Places API error") /\ UNCHANGED res
    /\ UNCHANGED <<op, userLocation, disasterType, distanceIn, distanceOut,
                   geoUp, radius, arrived,
                   safeLocations, closestSafeZones, routePromises,
                   directionCalls, advisory, placeCalls, routing, scoreIn,
                   scoreOut, filterIn, filterOut>>

\* one search is rejected: Promise.all rejects, the catch returns []
SearchRejects(t) ==
    /\ pc = "awaitSearches" /\ searches[t].st = "pending"
    /\ searches' = [searches EXCEPT ![t] = Failed]
    /\ AfterSearches(<<>>)
    /\ UNCHANGED <<op, userLocation, disasterType, distanceIn, distanceOut,
                   geoUp, radius, arrived,
                   advisory, placeCalls,
                   routing, scoreIn, scoreOut, filterIn, filterOut>>

----------------------------------------------------------------------------
(* The getDirections calls of calculateEvacuationRoute settle, in any order *)

\* the routes collected in a shared array as each call completes
ResultsAsArrived(promises, order) ==
    [k \in 1..Len(order) |-> promises[order[k]].results]

\* await Promise.all(routePromises): the results in the order of the promises,
\* whatever the order in which they were fulfilled
PromiseAll(promises, order) ==
    [k \in DOMAIN promises |-> promises[k].results]

DirectionsFulfils(i) ==
    /\ pc = "awaitRoutes" /\ routePromises[i].st = "pending"
    /\ routing[closestSafeZones[i].placeId] = "ok"
    /\ LET rp == [routePromises EXCEPT
                    ![i] = Fulfilled(<<RouteTo(closestSafeZones[i].placeId)>>)]
       IN  /\ routePromises' = rp
           /\ arrived' = Append(arrived, i)
           /\ IF AllFulfilled(rp, DOMAIN rp)
              THEN /\ ret' = CalcSelect(PromiseAll(rp, arrived'))
                   /\ pc' = "done"
              ELSE UNCHANGED <<ret, pc>>
    /\ UNCHANGED <<op, userLocation, disasterType, distanceIn, distanceOut,
                   geoUp, radius,
                   safeLocations, advisory, searches,
                   placeCalls, closestSafeZones, directionCalls, routing, res,
                   scoreIn, scoreOut, filterIn, filterOut>>

\* getDirections rethrows; Promise.all rejects; calculateEvacuationRoute rethrows
DirectionsRejects(i) ==
    /\ pc = "awaitRoutes" /\ routePromises[i].st = "pending"
    /\ routing[closestSafeZones[i].placeId] = "fail"
    /\ routePromises' = [routePromises EXCEPT ![i] = Failed]
    /\ arrived' = Append(arrived, i)
    /\ ret' = CalcCatch("Directions API error")
    /\ pc' = "done"
    /\ UNCHANGED <<op, userLocation, disasterType, distanceIn, distanceOut,
                   geoUp, radius,
                   safeLocations, advisory, searches,
                   placeCalls, closestSafeZones, directionCalls, routing, res,
                   scoreIn, scoreOut, filterIn, filterOut>>

----------------------------------------------------------------------------
(* The operations called on their own *)

ApplySelect ==
    /\ pc = "start" /\ op = "selectOptimalRoute"
    /\ scoreOut' = selectOptimalRoute(scoreIn.routes, scoreIn.safeZones,
                                      scoreIn.disasterType)
    /\ pc' = "done"
    /\ UNCHANGED <<op, userLocation, disasterType, distanceIn, distanceOut,
                   geoUp, radius, arrived,
                   safeLocations, advisory, searches,
                   placeCalls, closestSafeZones, routePromises, directionCalls,
                   routing, res, ret, scoreIn, filterIn, filterOut>>

ApplyDistance ==
    /\ pc = "start" /\ op = "calculateDistance"
    /\ distanceOut' = calculateDistance(distanceIn.lat1, distanceIn.lon1,
                                        distanceIn.lat2, distanceIn.lon2)
    /\ pc' = "done"
    /\ UNCHANGED <<op, userLocation, disasterType, distanceIn, geoUp, radius,
                   arrived, safeLocations, advisory, searches, placeCalls,
                   closestSafeZones, routePromises, directionCalls, routing,
                   res, ret, scoreIn, scoreOut, filterIn, filterOut>>

ApplyFilter ==
    /\ pc = "start" /\ op = "filterLocationsByDisasterType"
    /\ filterOut' = filterLocationsByDisasterType(filterIn.locations,
                                                  filterIn.disasterType)
    /\ pc' = "done"
    /\ UNCHANGED <<op, userLocation, disasterType, distanceIn, distanceOut,
                   geoUp, radius, arrived,
                   safeLocations, advisory, searches,
                   placeCalls, closestSafeZones, routePromises, directionCalls,
                   routing, res, ret, scoreIn, scoreOut, filterIn>>

----------------------------------------------------------------------------
(* Specifications *)

Init == InitPlan

Next ==
    \/ OptStart
    \/ AdvisoryResolves
    \/ AdvisoryRejects
    \/ CalcStart
    \/ NearbyStart
    \/ BasicStart
    \/ SafeLocationsStart
    \/ ServiceCalc
    \/ \E t \in Range(safeTypes) : \E r \in AnswersFor(t) : SearchFulfils(t, r)
    \/ \E t \in FailingTypes : SearchRejects(t)
    \/ \E i \in 1..3 : i \in DOMAIN routePromises /\ DirectionsFulfils(i)
    \/ \E i \in 1..3 : i \in DOMAIN routePromises /\ DirectionsRejects(i)

Spec == Init /\ [][Next]_vars

\* the steps of calculateEvacuationRoute alone
NextCalc ==
    \/ CalcStart
    \/ \E t \in Range(safeTypes) : \E r \in AnswersFor(t) : SearchFulfils(t, r)
    \/ \E t \in FailingTypes : SearchRejects(t)
    \/ \E i \in 1..3 : i \in DOMAIN routePromises /\ DirectionsFulfils(i)
    \/ \E i \in 1..3 : i \in DOMAIN routePromises /\ DirectionsRejects(i)

SpecCase == InitCase /\ [][NextCalc]_vars

\* every continuation that can run does run; a promise that never settles
\* (advisory = "hung") enables nothing
FairSpec == Spec /\ WF_vars(Next)

SpecScore == InitScore /\ [][ApplySelect]_vars

SpecFilter == InitFilter /\ [][ApplyFilter]_vars

SpecRouteScore == InitRouteScore /\ [][ApplySelect]_vars

SpecDistance == InitDistance /\ [][ApplyDistance]_vars

----------------------------------------------------------------------------
(* Properties *)

OptDone == op = "getOptimizedRoute" /\ pc = "done"
CalcDone == op = "calculateEvacuationRoute" /\ pc = "done"

SearchTypes == Range(safeTypes)

\* findNearbySafeLocations has returned
SearchesReturned == placeCalls # {} /\ pc # "awaitSearches"

\* the Geo Provider answered a search with a place to which it has a route
GeoHasRoutableCandidate ==
    \E t \in SearchTypes :
        /\ searches[t].st = "ok"
        /\ \E i \in 1..Len(searches[t].results) :
              routing[searches[t].results[i].placeId] = "ok"

EverySearchEmpty ==
    \A t \in SearchTypes : searches[t].st = "ok" /\ searches[t].results = <<>>

\* C1: when the advisory call fails and the Geo Provider, answering every
\* search, has a candidate with a valid route, getOptimizedRoute answers
\* with a successful plan whose source is the map fallback.
C1_FallbackCorrectness ==
    (/\ OptDone /\ advisory = "rejected"
     /\ \A t \in SearchTypes : searches[t].st = "ok"
     /\ GeoHasRoutableCandidate)
        => (res.status = 200 /\ res.success /\ res.source = "map")

\* C2: when the advisory call fails and every search returns zero places,
\* getOptimizedRoute ends with the error response and no success; and
\* calculateEvacuationRoute throws when findSafeZones returned an empty list.
C2_FailurePropagation ==
    /\ (OptDone /\ advisory = "rejected" /\ EverySearchEmpty)
          => /\ res.status = 500 /\ ~res.success /\ res.source = ""
             /\ res.error = "Failed to optimize evacuation route"
             /\ res.message = "No safe locations found"
    /\ (CalcDone /\ filterLocationsByDisasterType(safeLocations, disasterType) = <<>>)
          => (ret.kind = "throw" /\ ret.message = "No safe zones found")

C2_Witness ==
    /\ OptDone /\ advisory = "rejected" /\ EverySearchEmpty
    /\ res.status = 500

\* the fallback of getOptimizedRoute produced a plan
FallbackSucceeded ==
    /\ advisory = "rejected"
    /\ Len(safeLocations) > 0
    /\ "getRoutes" \in mapServiceMethods
    /\ routing[safeLocations[1].placeId] = "ok"

FallbackErrors == {"No safe locations found",
                   "mapService.getRoutes is not a function",
                   "Directions API error"}

\* C3: a completed getOptimizedRoute request carries either a successful
\* plan tagged with its source or a single error; the source is 'ai' exactly
\* when the advisory call succeeded and 'map' exactly when it failed and the
\* fallback succeeded; the advisory error itself is never the error answered.
C3_ResponseShape ==
    OptDone =>
        /\ res.status \in {200, 400, 500}
        /\ res.success <=> res.status = 200
        /\ res.success => (res.source \in {"ai", "map"} /\ res.error = "")
        /\ ~res.success => /\ res.source = "" /\ res.error # ""
                           /\ res.destination = <<>> /\ res.allOptions = <<>>
        /\ res.source = "ai" <=> advisory = "resolved"
        /\ res.source = "map" <=> FallbackSucceeded
        /\ (advisory = "rejected" /\ ~res.success) => res.message \in FallbackErrors

C3_Witness == OptDone /\ advisory = "rejected" /\ res.status = 500

\* C4: when the advisory call never responds, the request still completes,
\* through the map fallback.
C4_AdvisoryTimeout ==
    (advisory = "hung") ~> (pc = "done" /\ res.source = "map")

AllRoutingFails(zones) ==
    \A i \in 1..Len(zones) : routing[zones[i].placeId] = "fail"

C6_CategoryIsolation ==
    (SearchesReturned /\ \E t \in SearchTypes : searches[t].st = "failed")
        => \A t \in SearchTypes :
              searches[t].st = "ok" =>
                 Range(searches[t].results) \subseteq Range(safeLocations)

\* C7: when the directions request fails for some candidates and succeeds
\* for at least one, calculateEvacuationRoute does not fail and answers from
\* the remaining candidates.
C7_CandidateIsolation ==
    (/\ CalcDone /\ Len(closestSafeZones) > 0
     /\ \E i \in 1..Len(closestSafeZones) : routing[closestSafeZones[i].placeId] = "fail"
     /\ \E i \in 1..Len(closestSafeZones) : routing[closestSafeZones[i].placeId] = "ok")
        => /\ ret.kind = "return"
           /\ routing[ret.destination[1].placeId] = "ok"

\* C8: every score selectOptimalRoute assigns and ranks by lies in [0, 100].
C8_ScoreRange ==
    (op = "selectOptimalRoute" /\ pc = "done")
        => \A i \in 1..Len(scoreOut.scoredRoutes) :
              /\ scoreOut.scoredRoutes[i].score >= 0
              /\ scoreOut.scoredRoutes[i].score <= 100 * ScoreScale

\* C9: the scored routes of selectOptimalRoute are in non-increasing order
\* of score, and the route returned as best scores at least as high as
\* every other scored route.
C9_RankedByScore ==
    (op = "selectOptimalRoute" /\ pc = "done" /\ ~scoreOut.threw)
        => LET sr == scoreOut.scoredRoutes
           IN  /\ \A i \in 1..Len(sr) - 1 : sr[i].score >= sr[i + 1].score
               /\ \A i \in 1..Len(sr) : scoreOut.best.score >= sr[i].score
               /\ scoreOut.best = sr[1]

\* the second route scored higher than the first and was moved in front
C9_Witness ==
    /\ op = "selectOptimalRoute" /\ pc = "done" /\ ~scoreOut.threw
    /\ Len(scoreOut.scoredRoutes) > 1
    /\ scoreOut.scoredRoutes[1].score > scoreOut.scoredRoutes[2].score
    /\ scoreOut.best.destination[1].placeId = 2

ExclusionSet(dt) ==
    CASE dt = "flood" -> {"subway_station", "basement"}
      [] dt = "fire" -> {"gas_station", "chemical_plant"}
      [] OTHER -> {}

RECURSIVE CountKept(_, _)
CountKept(s, dt) ==
    IF s = <<>> THEN 0
    ELSE (IF Head(s).type \in ExclusionSet(dt) THEN 0 ELSE 1) + CountKept(Tail(s), dt)

\* C10: for every disaster type, filterLocationsByDisasterType returns no
\* location whose type is in that disaster type's exclusion set, and it
\* returns every other location: the exclusion removes, it does not demote.
C10_CategoryExclusion ==
    (op = "filterLocationsByDisasterType" /\ pc = "done")
        => /\ \A i \in 1..Len(filterOut) :
                 filterOut[i].type \notin ExclusionSet(filterIn.disasterType)
           /\ Len(filterOut) = CountKept(filterIn.locations, filterIn.disasterType)
           /\ Range(filterOut) \subseteq Range(filterIn.locations)

\* a flood call whose list held a basement ahead of a school
C10_Witness ==
    /\ op = "filterLocationsByDisasterType" /\ pc = "done"
    /\ filterIn.disasterType = "flood"
    /\ Len(filterIn.locations) = 2
    /\ filterIn.locations[1].type = "basement"
    /\ Len(filterOut) = 1 /\ filterOut[1].type = "school"

----------------------------------------------------------------------------
\* a comes no later than b in the order (suitability descending, distance
\* ascending)
RankedBefore(a, b, dt) ==
    \/ getLocationSafetyScore(a, dt) > getLocationSafetyScore(b, dt)
    \/ /\ getLocationSafetyScore(a, dt) = getLocationSafetyScore(b, dt)
       /\ a.distance <= b.distance

\* C11: the list filterLocationsByDisasterType returns, which findSafeZones
\* hands on unchanged, is sorted by suitability score, highest first, and
\* locations of equal score are in order of ascending distance.
C11_SortedBySuitability ==
    (op = "filterLocationsByDisasterType" /\ pc = "done")
        => \A i \in 1..Len(filterOut), j \in 1..Len(filterOut) :
              i < j => RankedBefore(filterOut[i], filterOut[j], filterIn.disasterType)

\* a call whose farther location scored higher and was moved to the front
C11_Witness ==
    /\ op = "filterLocationsByDisasterType" /\ pc = "done"
    /\ Len(filterOut) = 2
    /\ filterOut[1].distance > filterOut[2].distance
    /\ getLocationSafetyScore(filterOut[1], filterIn.disasterType)
          > getLocationSafetyScore(filterOut[2], filterIn.disasterType)

----------------------------------------------------------------------------
\* what findSafeZones returned to calculateEvacuationRoute
SafeZonesReturned == filterLocationsByDisasterType(safeLocations, disasterType)

\* the Geo Provider answered some search with at least one place
SomeCandidateFound ==
    \E t \in SearchTypes : searches[t].st = "ok" /\ Len(searches[t].results) >= 1

\* C12: whenever the Geo Provider returned at least one candidate in at least
\* one category, the list findSafeZones returns is non-empty and holds at
\* most three candidates.
C12_CandidatesBounded ==
    (op = "calculateEvacuationRoute" /\ SearchesReturned /\ SomeCandidateFound)
        => /\ Len(SafeZonesReturned) >= 1
           /\ Len(SafeZonesReturned) <= 3

----------------------------------------------------------------------------
\* the candidates calculateEvacuationRoute routes to, from the answers of the
\* Geo Provider taken in the order of the place types
AnsweredZones ==
    Slice(filterLocationsByDisasterType(MergeByDistance(searches), disasterType),
          0, 3)

\* the Geo Provider's route answers, one per candidate, in candidate order
AnsweredRoutes ==
    [i \in 1..Len(AnsweredZones) |-> <<RouteTo(AnsweredZones[i].placeId)>>]

\* C13: the plan calculateEvacuationRoute returns (primary route, its
\* destination, the alternatives and their order) is a function of the Geo
\* Provider's answers alone: whatever the order in which the searches and the
\* directions calls completed, it is the plan computed from the answers taken
\* in call order. Two runs with the same answers hence return the same plan.
C13_OrderIndependent ==
    (CalcDone /\ ret.kind = "return")
        => LET optimal == selectOptimalRoute(AnsweredRoutes, AnsweredZones,
                                             disasterType)
           IN  /\ ~optimal.threw
               /\ ret.route = optimal.best.route
               /\ ret.destination = optimal.best.destination
               /\ ret.alternativeRoutes = AnsweredRoutes

\* a plan returned after the route to the second candidate arrived before
\* the route to the first, the two candidates being different places
C13_Witness ==
    /\ CalcDone /\ ret.kind = "return"
    /\ Len(arrived) >= 2 /\ arrived[1] > arrived[2]
    /\ closestSafeZones[1].placeId # closestSafeZones[2].placeId

----------------------------------------------------------------------------
\* a location given with a latitude or a longitude outside the globe
OutOfRange(l) ==
    l.present /\ (l.lat < -90 \/ l.lat > 90 \/ l.lng < -180 \/ l.lng > 180)

\* C14: a request whose location is out of range or whose disaster type is
\* not one of the enumeration is answered with a validation error (400), and
\* no call of the optimizer or of the Geo Provider is made for it.
C14_ValidationFirst ==
    (op = "getOptimizedRoute"
       /\ (OutOfRange(userLocation) \/ disasterType \notin DisasterTypes))
        => /\ advisory = "idle"
           /\ placeCalls = {} /\ directionCalls = {}
           /\ pc = "done" => res.status = 400

----------------------------------------------------------------------------
\* C15: in a plan built from the Geo Provider, at most two alternatives are
\* listed, and neither the primary route nor the primary's destination is
\* among them.
C15_Alternatives ==
    /\ (CalcDone /\ ret.kind = "return")
          => /\ Len(ret.alternativeRoutes) <= 2
             /\ \A i \in 1..Len(ret.alternativeRoutes) :
                   ret.route \notin Range(ret.alternativeRoutes[i])
    /\ (OptDone /\ res.status = 200 /\ res.source = "map")
          => /\ Len(res.allOptions) <= 2
             /\ Range(res.destination) \cap Range(res.allOptions) = {}

----------------------------------------------------------------------------
----------------------------------------------------------------------------
\* C17: getOptimizedRoute sends no request to the Geo Provider unless the
\* advisory call has failed, and when the advisory call succeeds it answers
\* 200 with source 'ai' without having searched for places or routes.
C17_AdvisoryFirst ==
    op = "getOptimizedRoute"
        => /\ (placeCalls # {} \/ directionCalls # {}
                  \/ \E t \in SearchTypes : searches[t].st # "idle")
                 => advisory = "rejected"
           /\ advisory = "resolved"
                 => /\ pc = "done"
                    /\ res.status = 200 /\ res.source = "ai"
                    /\ placeCalls = {} /\ directionCalls = {}
                    /\ safeLocations = <<>> /\ closestSafeZones = <<>>

\* a request answered from the advisory call
C17_Witness ==
    /\ OptDone /\ advisory = "resolved"
    /\ res.status = 200 /\ res.source = "ai"
    /\ placeCalls = {}

----------------------------------------------------------------------------
----------------------------------------------------------------------------
----------------------------------------------------------------------------
\* the lookup table of place categories as the claim gives it
ClaimedCategories(dt) ==
    CASE dt = "flood" -> {"school", "stadium", "government_office", "university"}
      [] dt = "fire" -> {"hospital", "police", "fire_station", "school"}
      [] dt = "earthquake" -> {"park", "stadium", "school"}
      [] dt \in {"tornado", "hurricane"} -> {"community_center", "school", "stadium"}
      [] dt = "tsunami" -> {"school", "stadium", "government_office"}
      [] OTHER -> {"hospital", "police", "fire_station", "school"}

\* C20: the places requests findSafeZones sends are for the categories of the
\* disaster type's table entry, one per category and for no other category,
\* so that every candidate it returns has a category of that entry.
C20_CategoryQueries ==
    (op = "calculateEvacuationRoute" /\ placeCalls # {})
        => /\ {call.type : call \in placeCalls} = ClaimedCategories(disasterType)
           /\ \A i \in 1..Len(SafeZonesReturned) :
                 SafeZonesReturned[i].type \in ClaimedCategories(disasterType)

----------------------------------------------------------------------------
\* the destination bonus as the claim gives it
ClaimedBonus(type, dt) ==
    CASE dt = "flood" /\ type = "stadium" -> 15
      [] dt = "flood" /\ type = "school" -> 10
      [] dt = "fire" /\ type = "fire_station" -> 20
      [] dt = "fire" /\ type = "hospital" -> 15
      [] dt = "earthquake" /\ type = "park" -> 15
      [] dt = "earthquake" /\ type = "stadium" -> 10
      [] OTHER -> 0

\* 100 - min(40, duration / 60) - min(30, distance / 1000) + bonus, in
\* units of 1 / ScoreScale
ClaimedScore(route, type, dt) ==
    100 * ScoreScale
    - Min(40 * ScoreScale, (route.duration * ScoreScale) \div 60)
    - Min(30 * ScoreScale, (route.distance * ScoreScale) \div 1000)
    + ClaimedBonus(type, dt) * ScoreScale

\* C21: a candidate with a route is ranked by the score 100, less one point
\* per minute of travel up to 40, less one point per kilometre up to 30, plus
\* the destination bonus of the disaster type.
C21_ScoreFormula ==
    (op = "selectOptimalRoute" /\ pc = "done" /\ Len(scoreIn.routes) = 1
       /\ scoreIn.routes[1] # <<>>)
        => /\ Len(scoreOut.scoredRoutes) = 1
           /\ scoreOut.scoredRoutes[1].score
                 = ClaimedScore(scoreIn.routes[1][1], scoreIn.safeZones[1].type,
                                scoreIn.disasterType)

\* a two-hour route to a fire station in a fire: 100 - 40 - 0.5 + 20
C21_Witness ==
    /\ op = "selectOptimalRoute" /\ pc = "done"
    /\ Len(scoreIn.routes) = 1 /\ scoreIn.routes[1] # <<>>
    /\ scoreIn.disasterType = "fire"
    /\ scoreIn.safeZones[1].type = "fire_station"
    /\ scoreIn.routes[1][1].duration = 7200
    /\ scoreIn.routes[1][1].distance = 500
    /\ scoreOut.scoredRoutes[1].score = 238500

----------------------------------------------------------------------------
\* selectOptimalRoute was called with two routed zones of one type whose
\* routes agree in duration and distance
TwoEqualRoutes ==
    /\ op = "selectOptimalRoute" /\ pc = "done"
    /\ Len(scoreIn.routes) = 2
    /\ scoreIn.routes[1] # <<>> /\ scoreIn.routes[2] # <<>>
    /\ scoreIn.routes[1][1].duration = scoreIn.routes[2][1].duration
    /\ scoreIn.routes[1][1].distance = scoreIn.routes[2][1].distance
    /\ scoreIn.safeZones[1].type = scoreIn.safeZones[2].type

\* C22: the ranking score is reduced by 40 for a flood route through a
\* tunnel or an underpass, so of two flood routes equal in duration, distance
\* and destination type, one through a tunnel and one not, the one selected
\* is the one without the tunnel.
C22_TunnelPenalty ==
    (/\ TwoEqualRoutes
     /\ scoreIn.disasterType = "flood"
     /\ scoreIn.routes[1][1].tunnel # scoreIn.routes[2][1].tunnel)
        => /\ ~scoreOut.threw
           /\ ~scoreOut.best.route.tunnel

----------------------------------------------------------------------------
\* C23: of two ranked routes with the same score the one with the shorter
\* travel duration comes first, so the selected route has the least duration
\* among the routes of the highest score.
C23_TieByDuration ==
    (op = "selectOptimalRoute" /\ pc = "done")
        => \A i \in 1..Len(scoreOut.scoredRoutes), j \in 1..Len(scoreOut.scoredRoutes) :
              (i < j /\ scoreOut.scoredRoutes[i].score = scoreOut.scoredRoutes[j].score)
                 => scoreOut.scoredRoutes[i].route.duration
                      <= scoreOut.scoredRoutes[j].route.duration

----------------------------------------------------------------------------
\* the haversine distance in km on the grid: the longitudes' difference is
\* lon2 - lon1
Haversine(lat1, lon1, lat2, lon2) ==
    ArcKm(4 * SinHalfSq4(lat2 - lat1)
          + CosTwice(lat1) * CosTwice(lat2) * SinHalfSq4(lon2 - lon1))

\* C24: calculateDistance returns the great-circle distance of its two
\* points: the haversine of both latitudes and both longitudes, which is 0
\* for equal points and the same in either direction.
C24_GreatCircle ==
    (op = "calculateDistance" /\ pc = "done")
        => /\ distanceOut = Haversine(distanceIn.lat1, distanceIn.lon1,
                                      distanceIn.lat2, distanceIn.lon2)
           /\ (distanceIn.lat1 = distanceIn.lat2 /\ distanceIn.lon1 = distanceIn.lon2)
                 => distanceOut = 0
           /\ distanceOut = calculateDistance(distanceIn.lat2, distanceIn.lon2,
                                              distanceIn.lat1, distanceIn.lon1)

----------------------------------------------------------------------------
\* a location that satisfies the invariant of the data model
WithinRange(l) ==
    /\ l.present
    /\ -90 <= l.lat /\ l.lat <= 90
    /\ -180 <= l.lng /\ l.lng <= 180

\* C25: a request of one of the three evacuation endpoints whose location is
\* within range, latitude 0 and longitude 0 included, is not answered with
\* the 400 error for a missing or invalid location.
C25_ZeroAccepted ==
    (/\ op \in {"getOptimizedRoute", "getBasicEvacuationRoute", "getSafeLocations"}
     /\ WithinRange(userLocation)
     /\ pc = "done")
        => res.status # 400

----------------------------------------------------------------------------
\* C26: for a disaster type in any letter case, calculateEvacuationRoute
\* sends the radius of the lower-cased type, and with it the travel mode of
\* the lower-cased type (walking for a flood) and the category exclusion of
\* the lower-cased type.
C26_CaseConsistent ==
    op = "calculateEvacuationRoute"
        => /\ \A call \in placeCalls :
                 call.radius = ClampRadius(getSearchRadius(ToLowerCase(disasterType)))
           /\ \A call \in directionCalls :
                 call.mode = TravelMode(ToLowerCase(disasterType))
           /\ SearchesReturned
                 => SafeZonesReturned
                      = filterLocationsByDisasterType(safeLocations,
                                                      ToLowerCase(disasterType))

----------------------------------------------------------------------------
\* C27: the destination calculateEvacuationRoute returns with the selected
\* route is the safe zone that route leads to, in whatever order the
\* directions calls completed.
C27_RoutePaired ==
    (CalcDone /\ ret.kind = "return")
        => /\ Len(ret.destination) = 1
           /\ ret.destination[1].placeId = ret.route.to
           /\ \E i \in 1..Len(closestSafeZones) :
                 /\ ret.destination[1] = closestSafeZones[i]
                 /\ routePromises[i].results = <<ret.route>>

\* the second zone's route selected, after it had arrived before the first's
C27_Witness ==
    /\ CalcDone /\ ret.kind = "return"
    /\ Len(closestSafeZones) >= 2
    /\ arrived[1] = 2
    /\ closestSafeZones[1].placeId # closestSafeZones[2].placeId
    /\ ret.destination[1] = closestSafeZones[2]
    /\ ret.route.to = closestSafeZones[2].placeId

----------------------------------------------------------------------------
\* the candidates of a selectOptimalRoute call whose first route has a leg
RoutedCandidates ==
    {i \in 1..Len(scoreIn.routes) : FirstRoute(scoreIn.routes[i]).valid}

\* C28: selectOptimalRoute gives every route that has a first leg a score
\* above 0, whatever its duration, distance, disaster type and destination
\* type, so its score > 0 filter keeps every routed candidate and removes
\* exactly the candidates without a route.
C28_RoutedKept ==
    (op = "selectOptimalRoute" /\ pc = "done")
        => LET sr == scoreOut.scoredRoutes
           IN  /\ \A i \in RoutedCandidates :
                     /\ RouteScore(FirstRoute(scoreIn.routes[i]), scoreIn.safeZones[i],
                                   scoreIn.disasterType) > 0
                     /\ \E k \in 1..Len(sr) :
                           /\ sr[k].route = FirstRoute(scoreIn.routes[i])
                           /\ sr[k].destination = <<scoreIn.safeZones[i]>>
               /\ \A k \in 1..Len(sr) : sr[k].route.valid /\ sr[k].score > 0
               /\ Len(sr) = Cardinality(RoutedCandidates)
               /\ scoreOut.threw <=> RoutedCandidates = {}

\* a two-hour, 45 km route to a zone without bonus kept beside a candidate
\* without route that was removed
C28_Witness ==
    /\ op = "selectOptimalRoute" /\ pc = "done"
    /\ Len(scoreIn.routes) = 2
    /\ Len(scoreOut.scoredRoutes) = 1
    /\ scoreOut.best.route.duration = 7200
    /\ scoreOut.best.route.distance = 45000
    /\ scoreOut.best.score = 30 * ScoreScale

----------------------------------------------------------------------------
\* no place occurs twice in a list of locations
DistinctPlaces(locations) ==
    \A i, j \in 1..Len(locations) :
        i # j => locations[i].placeId # locations[j].placeId

\* C29: the list findNearbySafeLocations returns holds no two entries of the
\* same placeId, also when the Geo Provider answers one place under several
\* categories, and the zones calculateEvacuationRoute routes to are distinct
\* places.
C29_NoDuplicatePlaces ==
    SearchesReturned
        => /\ DistinctPlaces(safeLocations)
           /\ DistinctPlaces(closestSafeZones)

----------------------------------------------------------------------------
\* some nearby search of the call was rejected
SomeSearchFailed == \E t \in SearchTypes : searches[t].st = "failed"

\* the number of places the Geo Provider returned over all searches
RECURSIVE PlacesReturned(_)
PlacesReturned(types) ==
    IF types = <<>> THEN 0
    ELSE Len(searches[Head(types)].results) + PlacesReturned(Tail(types))

\* C30: findNearbySafeLocations never throws: when one of its searches
\* fails it returns the empty list, otherwise every place of every search,
\* ordered by ascending distance; with the Geo Provider unreachable
\* getSafeLocations answers 200 with an empty list and
\* getBasicEvacuationRoute answers 404 'No safe locations found'.
C30_NeverThrows ==
    /\ op = "findNearbySafeLocations" => ret = NoReturn
    /\ SearchesReturned
          => IF SomeSearchFailed
             THEN safeLocations = <<>>
             ELSE /\ Len(safeLocations) = PlacesReturned(safeTypes)
                  /\ \A t \in SearchTypes :
                        Range(searches[t].results) \subseteq Range(safeLocations)
                  /\ \A i \in 1..Len(safeLocations) - 1 :
                        safeLocations[i].distance <= safeLocations[i + 1].distance
    /\ (op = "getSafeLocations" /\ SearchesReturned /\ SomeSearchFailed)
          => res.status = 200 /\ res.success /\ res.data = <<>>
    /\ (op = "getBasicEvacuationRoute" /\ SearchesReturned /\ SomeSearchFailed)
          => res.status = 404 /\ res.error = "No safe locations found"
    /\ (op \in {"getSafeLocations", "getBasicEvacuationRoute"} /\ pc = "done"
           /\ ~geoUp /\ ~MissingCoordinates(userLocation))
          => SearchesReturned /\ SomeSearchFailed

\* getBasicEvacuationRoute answered 404 with the Geo Provider unreachable
C30_Witness ==
    /\ op = "getBasicEvacuationRoute" /\ pc = "done"
    /\ ~geoUp
    /\ SearchesReturned /\ SomeSearchFailed
    /\ safeLocations = <<>>
    /\ res.status = 404

====
